---------------------------- MODULE Spec2Model ----------------------------
(***************************************************************************)
(* A model of the cloudinary client (src/src/lib.rs, src/src/result.rs):   *)
(* request signing, multipart form assembly, the three operations          *)
(* (upload, rename, delete), response decoding and connection-string       *)
(* parsing.                                                                *)
(*                                                                         *)
(* Strings are sequences of byte codes (Rust String: UTF-8 bytes, ordered  *)
(* bytewise), so that joining, formatting and ordering are computed, not   *)
(* assumed.  A BTreeMap<String, String> is the sequence of its entries in  *)
(* iteration order.                                                        *)
(***************************************************************************)
EXTENDS Integers, Sequences, FiniteSets

VARIABLES
    cloudinary,   \* the client: [cloud_name, api_key, api_secret]
    clock,        \* Utc::now() in milliseconds
    call,         \* call id -> the locals of one upload/rename/delete call
    sig,          \* one build_signature application on a map built by inserts
    parse,        \* one Cloudinary::from_str application
    dec           \* one serde_json::from_str application

vars == <<cloudinary, clock, call, sig, parse, dec>>

\* The values of parse and dec while no from_str runs.
ParseIdle == [pc |-> "idle"]
DecIdle == [pc |-> "idle"]

---------------------------------------------------------------------------
(* String constants of lib.rs *)

UPLOAD_OPTION_API_KEY == <<97, 112, 105, 95, 107, 101, 121>>                 \* "api_key"
UPLOAD_OPTION_TIMESTAMP == <<116, 105, 109, 101, 115, 116, 97, 109, 112>>    \* "timestamp"
UPLOAD_OPTION_RESOURCE_TYPE ==
    <<114, 101, 115, 111, 117, 114, 99, 101, 95, 116, 121, 112, 101>>        \* "resource_type"
UPLOAD_OPTION_SIGNATURE == <<115, 105, 103, 110, 97, 116, 117, 114, 101>>    \* "signature"
QUERY_PARAM_SEPARATOR == <<38>>                                              \* "&"

(* Other strings the model's inputs are built from *)
EQ == <<61>>                                                                 \* "="
k_from_public_id == <<102, 114, 111, 109, 95, 112, 117, 98, 108, 105, 99, 95, 105, 100>>
k_to_public_id == <<116, 111, 95, 112, 117, 98, 108, 105, 99, 95, 105, 100>>
k_public_id == <<112, 117, 98, 108, 105, 99, 95, 105, 100>>                  \* "public_id"
k_eager == <<101, 97, 103, 101, 114>>                                        \* "eager"
k_eager_async == <<101, 97, 103, 101, 114, 95, 97, 115, 121, 110, 99>>       \* "eager_async"
k_folder == <<102, 111, 108, 100, 101, 114>>                                 \* "folder"
s_x == <<120>>                                                               \* "x"
s_y == <<121>>                                                               \* "y"
s_abc == <<97, 98, 99>>                                                      \* "abc"
s_secret == <<115, 101, 99, 114, 101, 116>>                                  \* "secret"
s_image == <<105, 109, 97, 103, 101>>                                        \* "image"
s_1700000000000 == <<49, 55, 48, 48, 48, 48, 48, 48, 48, 48, 48, 48, 48>>    \* "1700000000000"

---------------------------------------------------------------------------
(* Strings *)

\* String's Ord: bytewise lexicographic, a proper prefix first.
RECURSIVE StrLess(_, _)
StrLess(a, b) ==
    IF b = <<>> THEN FALSE
    ELSE IF a = <<>> THEN TRUE
    ELSE IF Head(a) # Head(b) THEN Head(a) < Head(b)
    ELSE StrLess(Tail(a), Tail(b))

\* i64::to_string of a non-negative value: its decimal digits.
RECURSIVE ToString(_)
ToString(n) ==
    IF n < 10 THEN <<48 + n>> ELSE ToString(n \div 10) \o <<48 + (n % 10)>>

\* format!("{key}={value}")
FormatPair(key, value) == key \o EQ \o value

\* Itertools::join: the items with sep between consecutive ones.
RECURSIVE Join(_, _)
Join(items, sep) ==
    IF items = <<>> THEN <<>>
    ELSE IF Len(items) = 1 THEN items[1]
    ELSE items[1] \o sep \o Join(Tail(items), sep)

s_file == <<102, 105, 108, 101>>                        \* "file"
s_mycloud == <<109, 121, 99, 108, 111, 117, 100>>       \* "mycloud"

\* An i64 by sign and decimal digits (no leading zero), and i64::to_string.
I64(neg, digits) == [neg |-> neg, digits |-> digits]

I64ToString(n) ==
    (IF n.neg THEN <<45>> ELSE <<>>) \o [i \in 1..Len(n.digits) |-> 48 + n.digits[i]]

\* Cloudinary::new(cloud_name, api_key, api_secret)
new(cloud_name, api_key, api_secret) ==
    [cloud_name |-> cloud_name, api_key |-> api_key, api_secret |-> api_secret]

---------------------------------------------------------------------------
(* BTreeMap<String, String>: the entries <<key, value>> in iteration order *)

BTreeMapNew == <<>>

BTreeMapKeys(m) == {m[i][1] : i \in 1..Len(m)}

BTreeMapGet(m, k) == (CHOOSE i \in 1..Len(m) : m[i][1] = k)

\* insert: replaces the value of a present key, otherwise places the entry
\* after every smaller key.
BTreeMapInsert(m, k, v) ==
    IF k \in BTreeMapKeys(m)
    THEN [m EXCEPT ![BTreeMapGet(m, k)] = <<k, v>>]
    ELSE LET n == Cardinality({i \in 1..Len(m) : StrLess(m[i][1], k)})
         IN  SubSeq(m, 1, n) \o <<<<k, v>>>> \o SubSeq(m, n + 1, Len(m))

\* remove: the value of the key if present ("None" otherwise), and the map
\* without it.
BTreeMapRemoved(m, k) ==
    IF k \in BTreeMapKeys(m) THEN <<"Some", m[BTreeMapGet(m, k)][2]>> ELSE <<"None", <<>>>>

RECURSIVE BTreeMapRemove(_, _)
BTreeMapRemove(m, k) ==
    IF m = <<>> THEN <<>>
    ELSE IF Head(m)[1] = k THEN Tail(m)
    ELSE <<Head(m)>> \o BTreeMapRemove(Tail(m), k)

---------------------------------------------------------------------------
(* build_signature *)

\* Sha1::update: the hasher's input so far, extended.
Sha1Update(hasher, bytes) == hasher \o bytes

\* format!("{:x}", hasher.finalize()): SHA-1 is not computed; the digest is
\* the tagged hasher input, so equal signatures mean equal inputs.
Sha1Hex(hasher) == <<"sha1", hasher>>

\* map.iter().map(|(key, value)| format!("{key}={value}"))
RECURSIVE OptionPairs(_)
OptionPairs(m) ==
    IF m = <<>> THEN <<>>
    ELSE <<FormatPair(Head(m)[1], Head(m)[2])>> \o OptionPairs(Tail(m))

\* A faulty build_signature that does not feed the separator after the
\* options string.
SignatureInput_NoSeparator(map, timestamp, api_secret) ==
    LET h0 == <<>>
        h1 == IF map # <<>>
              THEN Sha1Update(h0, Join(OptionPairs(map), QUERY_PARAM_SEPARATOR))
              ELSE h0
        h2 == Sha1Update(h1, FormatPair(UPLOAD_OPTION_TIMESTAMP, timestamp))
    IN  Sha1Update(h2, api_secret)

\* The bytes build_signature feeds to the hasher, in order of the updates.
SignatureInput(map, timestamp, api_secret) ==
    LET h0 == <<>>
        h1 == IF map # <<>>
              THEN Sha1Update(
                       Sha1Update(h0, Join(OptionPairs(map), QUERY_PARAM_SEPARATOR)),
                       QUERY_PARAM_SEPARATOR)
              ELSE h0
        h2 == Sha1Update(h1, FormatPair(UPLOAD_OPTION_TIMESTAMP, timestamp))
    IN  Sha1Update(h2, api_secret)

build_signature(map, timestamp, api_secret) ==
    Sha1Hex(SignatureInput(map, timestamp, api_secret))

---------------------------------------------------------------------------
(* build_signature applied to maps built by any sequence of inserts *)

MaxInserts == 3

SigKeys == {k_eager, k_eager_async, k_folder, k_public_id}
SigValues == {s_x, s_y}
SigTimestamps == {s_1700000000000, ToString(9)}
SigSecrets == {s_abc, s_secret}

RECURSIVE SeqsUpTo(_, _)
SeqsUpTo(S, n) ==
    IF n = 0 THEN {<<>>}
    ELSE LET shorter == SeqsUpTo(S, n - 1)
         IN  shorter \cup {Append(s, x) : s \in {t \in shorter : Len(t) = n - 1}, x \in S}

SigIdle == [pc |-> "idle", todo |-> <<>>, inserted |-> <<>>, map |-> <<>>,
            timestamp |-> <<>>, api_secret |-> <<>>, hashed |-> <<>>]

SigInit ==
    /\ sig \in {[SigIdle EXCEPT !.pc = "insert", !.todo = t, !.timestamp = ts,
                                !.api_secret = s] :
                    t \in SeqsUpTo(SigKeys \X SigValues, MaxInserts),
                    ts \in SigTimestamps, s \in SigSecrets}
    /\ cloudinary = new(<<>>, I64(FALSE, <<0>>), <<>>)
    /\ clock = 0
    /\ call = <<>>
    /\ parse = ParseIdle
    /\ dec = DecIdle

\* options_map.insert(key, value)
SigInsert ==
    /\ sig.pc = "insert"
    /\ sig.todo # <<>>
    /\ sig' = [sig EXCEPT !.map = BTreeMapInsert(sig.map, Head(sig.todo)[1], Head(sig.todo)[2]),
                          !.inserted = Append(sig.inserted, Head(sig.todo)),
                          !.todo = Tail(sig.todo)]
    /\ UNCHANGED <<cloudinary, clock, call, parse, dec>>

\* self.build_signature(&map, timestamp)
SigBuild ==
    /\ sig.pc = "insert"
    /\ sig.todo = <<>>
    /\ sig' = [sig EXCEPT !.pc = "done",
                          !.hashed = SignatureInput(sig.map, sig.timestamp, sig.api_secret)]
    /\ UNCHANGED <<cloudinary, clock, call, parse, dec>>

SigNext == SigInsert \/ SigBuild

SpecSig == SigInit /\ [][SigNext]_vars

---------------------------------------------------------------------------
(* C1 *)

\* The key/value content of a sequence of inserts: the last value of each key.
ContentOf(inserts) ==
    [k \in {inserts[i][1] : i \in 1..Len(inserts)} |->
        inserts[CHOOSE i \in 1..Len(inserts) :
                    /\ inserts[i][1] = k
                    /\ \A j \in (i + 1)..Len(inserts) : inserts[j][1] # k][2]]

\* The keys of f in strictly ascending order.
AscendingKeys(f) ==
    CHOOSE s \in [1..Cardinality(DOMAIN f) -> DOMAIN f] :
        \A i, j \in DOMAIN s : i < j => StrLess(s[i], s[j])

RECURSIVE JoinedFrom(_, _, _)
JoinedFrom(f, ks, i) ==
    IF i > Len(ks) THEN <<>>
    ELSE ks[i] \o EQ \o f[ks[i]]
         \o (IF i < Len(ks) THEN QUERY_PARAM_SEPARATOR ELSE <<>>)
         \o JoinedFrom(f, ks, i + 1)

ExpectedHashInput(f, T, S) ==
    IF DOMAIN f = {}
    THEN UPLOAD_OPTION_TIMESTAMP \o EQ \o T \o S
    ELSE JoinedFrom(f, AscendingKeys(f), 1) \o QUERY_PARAM_SEPARATOR
         \o UPLOAD_OPTION_TIMESTAMP \o EQ \o T \o S

\* C1: the bytes build_signature feeds to the hash are, for a non-empty map,
\* the key=value pairs in strictly ascending key order joined by "&", then
\* "&", then "timestamp=T", then the secret with no delimiter; for an empty
\* map, "timestamp=T" then the secret.  They are a function of the map's
\* key/value content alone, whatever the order of the inserts that built it.
C1_HashInput ==
    sig.pc = "done" =>
        sig.hashed = ExpectedHashInput(ContentOf(sig.inserted), sig.timestamp, sig.api_secret)

\* A map whose entries were inserted out of key order (public_id, folder,
\* eager) is hashed as "eager=x&folder=y&public_id=x&timestamp=1700000000000abc".
C1_Witness ==
    /\ sig.pc = "done"
    /\ sig.inserted = <<<<k_public_id, s_x>>, <<k_folder, s_y>>, <<k_eager, s_x>>>>
    /\ sig.timestamp = s_1700000000000
    /\ sig.api_secret = s_abc
    /\ sig.hashed = <<101, 97, 103, 101, 114, 61, 120, 38, 102, 111, 108, 100, 101, 114, 61,
                      121, 38, 112, 117, 98, 108, 105, 99, 95, 105, 100, 61, 120, 38, 116,
                      105, 109, 101, 115, 116, 97, 109, 112, 61, 49, 55, 48, 48, 48, 48, 48,
                      48, 48, 48, 48, 48, 48, 97, 98, 99>>

---------------------------------------------------------------------------
(* impl FromStr for Cloudinary *)

s_cloudinary == <<99, 108, 111, 117, 100, 105, 110, 97, 114, 121>>   \* "cloudinary"
s_slashes == <<47, 47>>                                             \* "//"
s_123 == <<49, 50, 51>>                                             \* "123"
s_007 == <<48, 48, 55>>                                             \* "007"
s_12a == <<49, 50, 97>>                                             \* "12a"
s_minus5 == <<45, 53>>                                              \* "-5"
s_plus5 == <<43, 53>>                                               \* "+5"
s_minus == <<45>>                                                   \* "-"
s_i64_max == <<57, 50, 50, 51, 51, 55, 50, 48, 51, 54, 56, 53, 52, 55, 55, 53, 56, 48, 55>>
s_i64_max_plus_1 == <<57, 50, 50, 51, 51, 55, 50, 48, 51, 54, 56, 53, 52, 55, 55, 53, 56, 48, 56>>
s_i64_min == <<45, 57, 50, 50, 51, 51, 55, 50, 48, 51, 54, 56, 53, 52, 55, 55, 53, 56, 48, 56>>
s_i64_min_minus_1 == <<45, 57, 50, 50, 51, 51, 55, 50, 48, 51, 54, 56, 53, 52, 55, 55, 53, 56, 48, 57>>

\* The magnitudes of i64::MAX and i64::MIN, in decimal digits.
I64MaxDigits == <<9, 2, 2, 3, 3, 7, 2, 0, 3, 6, 8, 5, 4, 7, 7, 5, 8, 0, 7>>
I64MinDigits == <<9, 2, 2, 3, 3, 7, 2, 0, 3, 6, 8, 5, 4, 7, 7, 5, 8, 0, 8>>

IsDigit(b) == 48 <= b /\ b <= 57

\* a <= b for magnitudes written without leading zeros
RECURSIVE DigitsLeq(_, _)
DigitsLeq(a, b) ==
    IF Len(a) # Len(b) THEN Len(a) < Len(b)
    ELSE IF a = <<>> THEN TRUE
    ELSE IF Head(a) # Head(b) THEN Head(a) < Head(b)
    ELSE DigitsLeq(Tail(a), Tail(b))

\* result * 10 + digit on a magnitude
MulAdd(acc, d) == IF acc = <<0>> THEN <<d>> ELSE Append(acc, d)

\* The digit loop of i64::from_str: checked_mul(10), then checked_add (or
\* checked_sub for a negative number) of each digit; an invalid digit or an
\* overflow ends it with an error.
RECURSIVE ParseDigits(_, _, _)
ParseDigits(bytes, acc, neg) ==
    IF bytes = <<>> THEN [ok |-> TRUE, value |-> I64(neg /\ acc # <<0>>, acc)]
    ELSE IF ~IsDigit(Head(bytes)) THEN [ok |-> FALSE, value |-> I64(FALSE, <<0>>)]
    ELSE LET next == MulAdd(acc, Head(bytes) - 48)
         IN  IF ~DigitsLeq(next, IF neg THEN I64MinDigits ELSE I64MaxDigits)
             THEN [ok |-> FALSE, value |-> I64(FALSE, <<0>>)]
             ELSE ParseDigits(Tail(bytes), next, neg)

\* str::parse::<i64>: empty and a lone sign are errors; a leading + or -.
ParseI64(src) ==
    IF src = <<>> THEN [ok |-> FALSE, value |-> I64(FALSE, <<0>>)]
    ELSE IF Head(src) \in {43, 45} /\ Tail(src) = <<>>
         THEN [ok |-> FALSE, value |-> I64(FALSE, <<0>>)]
    ELSE IF Head(src) = 43 THEN ParseDigits(Tail(src), <<0>>, FALSE)
    ELSE IF Head(src) = 45 THEN ParseDigits(Tail(src), <<0>>, TRUE)
    ELSE ParseDigits(src, <<0>>, FALSE)

FirstIndex(str, byte) ==
    IF \E i \in 1..Len(str) : str[i] = byte
    THEN CHOOSE i \in 1..Len(str) : str[i] = byte /\ \A j \in 1..(i - 1) : str[j] # byte
    ELSE 0

LastIndex(str, byte) ==
    IF \E i \in 1..Len(str) : str[i] = byte
    THEN CHOOSE i \in 1..Len(str) : str[i] = byte /\ \A j \in (i + 1)..Len(str) : str[j] # byte
    ELSE 0

NoUrl == [ok |-> FALSE, host |-> <<"None", <<>>>>, username |-> <<>>,
          password |-> <<"None", <<>>>>]

\* s.parse::<url::Url>() for a scheme that is not special, on strings of
\* letters, digits, + - _ : / @ (none is percent-encoded): the scheme up to
\* the first ':', then after "//" the authority, whose userinfo ends at the
\* last '@' and splits at its first ':'.  An empty password is no password;
\* an empty host is no host, and an error when there are credentials.
UrlParse(s) ==
    LET colon == FirstIndex(s, 58)
        scheme == SubSeq(s, 1, colon - 1)
        rest == SubSeq(s, colon + 1, Len(s))
    IN  IF colon <= 1 \/ ~(97 <= scheme[1] /\ scheme[1] <= 122) THEN NoUrl
        ELSE IF ~(Len(rest) >= 2 /\ SubSeq(rest, 1, 2) = s_slashes)
             THEN [NoUrl EXCEPT !.ok = TRUE]
        ELSE LET authority == SubSeq(rest, 3, Len(rest))
                 at == LastIndex(authority, 64)
                 userinfo == SubSeq(authority, 1, at - 1)
                 host == SubSeq(authority, at + 1, Len(authority))
                 sep == FirstIndex(userinfo, 58)
                 username == IF sep = 0 THEN userinfo ELSE SubSeq(userinfo, 1, sep - 1)
                 password == IF sep = 0 THEN <<>> ELSE SubSeq(userinfo, sep + 1, Len(userinfo))
             IN  IF host = <<>> /\ (username # <<>> \/ password # <<>>) THEN NoUrl
                 ELSE [ok |-> TRUE,
                       host |-> IF host = <<>> THEN <<"None", <<>>>> ELSE <<"Some", host>>,
                       username |-> username,
                       password |-> IF password = <<>> THEN <<"None", <<>>>>
                                    ELSE <<"Some", password>>]

ParseErr(msg) == [tag |-> "Err", msg |-> msg, client |-> new(<<>>, I64(FALSE, <<0>>), <<>>)]
ParseOk(client) == [tag |-> "Ok", msg |-> "", client |-> client]

\* A faulty construction with the name and the secret exchanged.
from_str_new_Swapped(cloud_name, api_key, api_secret) == new(api_secret, api_key, cloud_name)

\* Ok(Cloudinary::new(cloud_name, api_key, api_secret))
from_str_new(cloud_name, api_key, api_secret) == new(cloud_name, api_key, api_secret)

\* Cloudinary::from_str
from_str(s) ==
    LET url == UrlParse(s)
        api_key == ParseI64(url.username)
    IN  IF ~url.ok THEN ParseErr("Url cannot be parsed")
        ELSE IF url.host[1] = "None" THEN ParseErr("Missing cloud name.")
        ELSE IF url.username = <<>> THEN ParseErr("Missing api key.")
        ELSE IF ~api_key.ok THEN ParseErr("Api key is not a number.")
        ELSE IF url.password[1] = "None" THEN ParseErr("Missing api secret.")
        ELSE ParseOk(from_str_new(url.host[2], api_key.value, url.password[2]))

(* from_str applied to connection strings written from their components *)

ConnKeys ==
    {<<>>, s_123, s_007, s_12a, s_abc, s_minus5, s_plus5, s_minus,
     s_i64_max, s_i64_max_plus_1, s_i64_min, s_i64_min_minus_1}
ConnSecrets == {<<"None", <<>>>>, <<"Some", <<>>>>, <<"Some", s_secret>>, <<"Some", s_123>>}
ConnClouds == {<<>>, s_mycloud, s_x}

\* scheme://<api_key>:<api_secret>@<cloud_name>, a missing secret without
\* its ':', missing credentials without the '@'
ConnectionString(key, secret, cloud) ==
    s_cloudinary \o <<58>> \o s_slashes
    \o (IF key = <<>> /\ secret[1] = "None" THEN <<>>
        ELSE key \o (IF secret[1] = "Some" THEN <<58>> \o secret[2] ELSE <<>>) \o <<64>>)
    \o cloud

ParseInit ==
    /\ parse \in {[pc |-> "parse", key |-> k, secret |-> s, cloud |-> cl,
                   input |-> ConnectionString(k, s, cl), result |-> ParseErr("")] :
                      k \in ConnKeys, s \in ConnSecrets, cl \in ConnClouds}
                 \cup {[pc |-> "parse", key |-> <<>>, secret |-> <<"None", <<>>>>,
                        cloud |-> <<>>, input |-> s_mycloud, result |-> ParseErr("")]}
    /\ cloudinary = new(<<>>, I64(FALSE, <<0>>), <<>>)
    /\ clock = 0
    /\ call = <<>>
    /\ sig = SigIdle
    /\ dec = DecIdle

\* Cloudinary::from_str(s)
ParseFromStr ==
    /\ parse.pc = "parse"
    /\ parse' = [parse EXCEPT !.pc = "done", !.result = from_str(parse.input)]
    /\ UNCHANGED <<cloudinary, clock, call, sig, dec>>

ParseNext == ParseFromStr

SpecParse == ParseInit /\ [][ParseNext]_vars

---------------------------------------------------------------------------
(* C8 *)

\* An optional sign and then digits, at least one.
IsNumeral(key) ==
    LET digits == IF key # <<>> /\ key[1] \in {43, 45} THEN Tail(key) ELSE key
    IN  digits # <<>> /\ \A i \in 1..Len(digits) : IsDigit(digits[i])

\* The magnitude of a numeral, without leading zeros.
Magnitude(key) ==
    LET digits == IF key[1] \in {43, 45} THEN Tail(key) ELSE key
        lead == Cardinality({i \in 1..Len(digits) :
                                \A j \in 1..i : digits[j] = 48})
        kept == IF lead = Len(digits) THEN <<48>> ELSE SubSeq(digits, lead + 1, Len(digits))
    IN  [i \in 1..Len(kept) |-> kept[i] - 48]

FitsI64(key) ==
    DigitsLeq(Magnitude(key), IF key[1] = 45 THEN I64MinDigits ELSE I64MaxDigits)

ValueOfNumeral(key) ==
    I64(key[1] = 45 /\ Magnitude(key) # <<0>>, Magnitude(key))

AllPresent(p) == p.key # <<>> /\ p.secret[1] = "Some" /\ p.secret[2] # <<>> /\ p.cloud # <<>>

---------------------------------------------------------------------------
(* JSON values, as serde_json parses them into serde's buffered Content   *)
(* for an untagged enum: a string, a number (by class), a bool, null, an  *)
(* array (items) or an object (members <<name, value>> in text order,     *)
(* duplicates kept).  JInvalid is a text that is not JSON.                 *)

JVal(kind, s, items, members) ==
    [kind |-> kind, s |-> s, items |-> items, members |-> members]
JInvalid == JVal("invalid", "", <<>>, <<>>)
JNull == JVal("null", "", <<>>, <<>>)
JStr(s) == JVal("string", s, <<>>, <<>>)
JUint == JVal("number", "uint", <<>>, <<>>)       \* a non-negative integer
JNegInt == JVal("number", "negint", <<>>, <<>>)   \* a negative integer
JFloat == JVal("number", "float", <<>>, <<>>)     \* a number with a fraction
JBool == JVal("bool", "true", <<>>, <<>>)
JArr(items) == JVal("array", "", items, <<>>)
JObj(members) == JVal("object", "", <<>>, members)

\* A string DateTime::<Utc>::from_str accepts.
s_datetime == "2023-01-01T00:00:00Z"

---------------------------------------------------------------------------
(* result.rs: the response structs, fields in declaration order *)

Field(name, type) == [name |-> name, type |-> type]

UploadResponse ==
    << Field("asset_id", "String"), Field("public_id", "String"),
       Field("version", "usize"), Field("version_id", "String"),
       Field("signature", "String"), Field("width", "usize"),
       Field("height", "usize"), Field("format", "String"),
       Field("resource_type", "String"), Field("created_at", "DateTime"),
       Field("tags", "VecString"), Field("bytes", "usize"),
       Field("type", "String"), Field("etag", "String"),
       Field("placeholder", "bool"), Field("url", "String"),
       Field("secure_url", "String"), Field("original_filename", "String"),
       Field("folder", "String"), Field("overwritten", "OptionBool"),
       Field("api_key", "String") >>

RenameResponse ==
    << Field("asset_id", "String"), Field("public_id", "String"),
       Field("version", "usize"), Field("version_id", "String"),
       Field("signature", "String"), Field("width", "usize"),
       Field("height", "usize"), Field("format", "String"),
       Field("resource_type", "String"), Field("created_at", "DateTime"),
       Field("tags", "VecString"), Field("bytes", "usize"),
       Field("type", "String"), Field("placeholder", "bool"),
       Field("url", "String"), Field("secure_url", "String"),
       Field("folder", "String") >>

DeleteResponse == << Field("result", "String") >>

Error == << Field("error", "Message") >>

Message == << Field("message", "String") >>

FieldNames(struct) == {struct[i].name : i \in 1..Len(struct)}

FieldIndex(struct, name) == CHOOSE i \in 1..Len(struct) : struct[i].name = name

---------------------------------------------------------------------------
(* #[derive(Deserialize)]: serde's derived decoders *)

RECURSIVE DeserializeValue(_, _)
RECURSIVE DeserializeStruct(_, _)

\* Whether a value deserializes as a field type.
DeserializeValue(type, v) ==
    CASE type = "String" -> v.kind = "string"
      [] type = "usize" -> v.kind = "number" /\ v.s = "uint"
      [] type = "bool" -> v.kind = "bool"
      \* deserialize_from_str: a String, then DateTime::from_str
      [] type = "DateTime" -> v.kind = "string" /\ v.s = s_datetime
      [] type = "VecString" ->
            v.kind = "array" /\ \A i \in 1..Len(v.items) : v.items[i].kind = "string"
      \* Option<bool>: null is None, anything else must be a bool
      [] type = "OptionBool" -> v.kind \in {"null", "bool"}
      [] type = "Message" -> DeserializeStruct(Message, v)

\* visit_map: the members in order; a known field must not repeat and must
\* deserialize, an unknown one is skipped; at the end every field that was
\* not seen must be an Option.
RECURSIVE VisitMap(_, _, _)
VisitMap(struct, members, seen) ==
    IF members = <<>>
    THEN \A i \in 1..Len(struct) :
            struct[i].name \in seen \/ struct[i].type = "OptionBool"
    ELSE LET name == Head(members)[1]
             value == Head(members)[2]
         IN  IF name \notin FieldNames(struct)
             THEN VisitMap(struct, Tail(members), seen)
             ELSE /\ name \notin seen
                  /\ DeserializeValue(struct[FieldIndex(struct, name)].type, value)
                  /\ VisitMap(struct, Tail(members), seen \cup {name})

\* visit_seq: the i-th item is the i-th field; every field needs its item, and
\* no item may be left over.
VisitSeq(struct, items) ==
    /\ Len(items) = Len(struct)
    /\ \A i \in 1..Len(struct) : DeserializeValue(struct[i].type, items[i])

\* deserialize_struct on buffered content: a map or a sequence.
DeserializeStruct(struct, v) ==
    CASE v.kind = "object" -> VisitMap(struct, v.members, {})
      [] v.kind = "array" -> VisitSeq(struct, v.items)
      [] OTHER -> FALSE

\* The value of a field of a decoded struct (a string's content).
RECURSIVE MemberValue(_, _)
MemberValue(members, name) ==
    IF Head(members)[1] = name THEN Head(members)[2] ELSE MemberValue(Tail(members), name)

FieldOf(struct, v, name) ==
    IF v.kind = "object" THEN MemberValue(v.members, name)
    ELSE v.items[FieldIndex(struct, name)]

\* The outcomes of decoding.
NoResult == [tag |-> "none", variant |-> "", msg |-> ""]
OkSucces == [tag |-> "Ok", variant |-> "Succes", msg |-> ""]
OkError(message) == [tag |-> "Ok", variant |-> "Error", msg |-> message]
Err(msg) == [tag |-> "Err", variant |-> "", msg |-> msg]

\* serde_json's error rendered by err.to_string()
SerdeError(enum, v) ==
    IF v.kind = "invalid" THEN "expected value at line 1 column 1"
    ELSE "data did not match any variant of untagged enum " \o enum.name

CloudinaryUploadResult == [name |-> "CloudinaryUploadResult", Succes |-> UploadResponse]
CloudinaryRenameResult == [name |-> "CloudinaryRenameResult", Succes |-> RenameResponse]
CloudinaryDeleteResult == [name |-> "CloudinaryDeleteResult", Succes |-> DeleteResponse]

\* #[serde(untagged)]: the variants in declaration order, the first that
\* deserializes; serde_json::from_str(..).map_err(|err| CloudinaryError(err.to_string()))
from_str_json(enum, v) ==
    IF v.kind = "invalid" THEN Err(SerdeError(enum, v))
    ELSE IF DeserializeStruct(enum.Succes, v) THEN OkSucces
    ELSE IF DeserializeStruct(Error, v)
         THEN OkError(FieldOf(Message, FieldOf(Error, v, "error"), "message").s)
    ELSE Err(SerdeError(enum, v))

---------------------------------------------------------------------------
(* serde_json::from_str applied to response texts *)

MaxEdits == 1

\* A value of each field type, and the struct written as an object or
\* positionally as an array.
ValueOf(type) ==
    CASE type = "String" -> JStr("x")
      [] type = "usize" -> JUint
      [] type = "bool" -> JBool
      [] type = "DateTime" -> JStr(s_datetime)
      [] type = "VecString" -> JArr(<<JStr("x")>>)
      [] type = "OptionBool" -> JBool
      [] type = "Message" -> JObj(<<<<"message", JStr("bad request")>>>>)

ObjectOf(struct) == JObj([i \in 1..Len(struct) |-> <<struct[i].name, ValueOf(struct[i].type)>>])
ArrayOf(struct) == JArr([i \in 1..Len(struct) |-> ValueOf(struct[i].type)])

RemoveAt(seq, i) == SubSeq(seq, 1, i - 1) \o SubSeq(seq, i + 1, Len(seq))

Replacements == {JNull, JNegInt}

\* The texts one edit away from a text: a member or item removed, given
\* another value, repeated, or added.
Edits(v) ==
    CASE v.kind = "object" ->
            {JObj(RemoveAt(v.members, i)) : i \in 1..Len(v.members)}
            \cup {JObj([v.members EXCEPT ![i] = <<v.members[i][1], r>>]) :
                     i \in 1..Len(v.members), r \in Replacements}
            \cup {JObj(Append(v.members, v.members[i])) : i \in 1..Len(v.members)}
            \cup {JObj(Append(v.members, <<"extra", JUint>>)),
                  JObj(Append(v.members, <<"error", ValueOf("Message")>>))}
      [] v.kind = "array" ->
            {JArr(RemoveAt(v.items, i)) : i \in 1..Len(v.items)}
            \cup {JArr([v.items EXCEPT ![i] = r]) : i \in 1..Len(v.items), r \in Replacements}
            \cup {JArr(Append(v.items, JUint))}
      [] OTHER -> {}

BaseTexts ==
    { JInvalid, JNull, JStr("x"), JUint, JObj(<<>>), JArr(<<>>),
      ObjectOf(UploadResponse), ObjectOf(RenameResponse), ObjectOf(DeleteResponse),
      ObjectOf(Error),
      ArrayOf(UploadResponse), ArrayOf(RenameResponse), ArrayOf(DeleteResponse),
      JObj(<<<<"error", JObj(<<>>)>>>>),
      JObj(<<<<"error", JObj(<<<<"message", JUint>>>>)>>>>),
      JObj(<<<<"error", JObj(<<<<"message", JStr("bad request")>>, <<"code", JUint>>>>)>>>>),
      JObj(<<<<"result", JStr("ok")>>, <<"error", JStr("x")>>>>) }

RECURSIVE TextsWithin(_)
TextsWithin(n) ==
    IF n = 0 THEN BaseTexts
    ELSE LET less == TextsWithin(n - 1)
         IN  less \cup UNION {Edits(v) : v \in less}

DecTexts == TextsWithin(MaxEdits)

DecEnums == {CloudinaryUploadResult, CloudinaryRenameResult, CloudinaryDeleteResult}

DecInit ==
    /\ dec \in {[pc |-> "decode", enum |-> e, text |-> t, result |-> NoResult] :
                    e \in DecEnums, t \in DecTexts}
    /\ cloudinary = new(<<>>, I64(FALSE, <<0>>), <<>>)
    /\ clock = 0
    /\ call = <<>>
    /\ sig = SigIdle
    /\ parse = ParseIdle

\* serde_json::from_str(&text)
DecDecode ==
    /\ dec.pc = "decode"
    /\ dec' = [dec EXCEPT !.pc = "done", !.result = from_str_json(dec.enum, dec.text)]
    /\ UNCHANGED <<cloudinary, clock, call, sig, parse>>

DecNext == DecDecode

SpecDecode == DecInit /\ [][DecNext]_vars

---------------------------------------------------------------------------
(* C6 *)

Members(v, name) == {i \in 1..Len(v.members) : v.members[i][1] = name}

\* A JSON object that carries a field once, with a value of its type.
HasField(v, field) ==
    \E i \in Members(v, field.name) :
        /\ Members(v, field.name) = {i}
        /\ DeserializeValue(field.type, v.members[i][2])

\* The shape of a struct: a JSON object carrying every mandatory field, and
\* the optional one either not at all or as null or a bool; other members
\* are of no account.
MatchesShape(struct, v) ==
    /\ v.kind = "object"
    /\ \A i \in 1..Len(struct) :
          \/ HasField(v, struct[i])
          \/ struct[i].type = "OptionBool" /\ Members(v, struct[i].name) = {}

\* {error: {message: string}}
MatchesErrorShape(v) ==
    /\ v.kind = "object"
    /\ \E i \in Members(v, "error") :
          /\ Members(v, "error") = {i}
          /\ MatchesShape(Message, v.members[i][2])

ErrorMessageOf(v) ==
    LET e == v.members[CHOOSE i \in Members(v, "error") : TRUE][2]
    IN  e.members[CHOOSE i \in Members(e, "message") : TRUE][2].s

\* C6: decoding yields Success when the text matches the operation's success
\* shape (also when it carries an error member), otherwise Failure(message)
\* when it matches {error: {message: string}}, otherwise a decoding error;
\* a text missing a mandatory field is never a Success.
C6_ShapeProbing ==
    dec.pc = "done" =>
        dec.result =
            IF MatchesShape(dec.enum.Succes, dec.text) THEN OkSucces
            ELSE IF MatchesErrorShape(dec.text) THEN OkError(ErrorMessageOf(dec.text))
            ELSE Err(SerdeError(dec.enum, dec.text))

\* The same, for the texts that are not JSON arrays.
C6_ShapeProbingOfObjects ==
    (dec.pc = "done" /\ dec.text.kind # "array") =>
        dec.result =
            IF MatchesShape(dec.enum.Succes, dec.text) THEN OkSucces
            ELSE IF MatchesErrorShape(dec.text) THEN OkError(ErrorMessageOf(dec.text))
            ELSE Err(SerdeError(dec.enum, dec.text))

---------------------------------------------------------------------------
(* The client and its three operations *)

Client == new(s_mycloud, I64(FALSE, <<1, 2, 3>>), s_abc)

\* Form::text and the file part of a multipart form
TextField(name, value) == [name |-> name, kind |-> "text", value |-> value]
FilePart(name, filename) == [name |-> name, kind |-> "file", value |-> filename]

NoText == [raw |-> "", json |-> JInvalid]

IdleCall ==
    [pc |-> "idle", op |-> "", options |-> <<>>, file |-> <<>>,
     options_map |-> <<>>, supplied |-> <<>>, timestamp |-> <<>>, clock_reads |-> 0,
     form |-> <<>>, hashed |-> <<>>, signature |-> <<>>, sent |-> <<>>,
     text |-> NoText, decodes |-> 0, failed |-> "", result |-> NoResult]

\* The end of a call by `?` on an Err: the error goes to the caller.
ReturnErr_Retry(rec, step, msg) ==
    [rec EXCEPT !.pc = IF step = "send" THEN "send" ELSE "done",
                !.failed = step,
                !.result = IF step = "send" THEN rec.result ELSE Err(msg)]

ReturnErr(rec, step, msg) ==
    [rec EXCEPT !.pc = "done", !.failed = step, !.result = Err(msg)]

\* upload_image(src, filename, options): up to the first await
upload_image(c, options, filename) ==
    /\ call[c].pc = "idle"
    /\ call' = [call EXCEPT ![c] = [@ EXCEPT !.pc = "prepare_file", !.op = "upload",
                                              !.options = options, !.file = filename]]
    /\ UNCHANGED <<cloudinary, clock, sig, parse, dec>>

\* prepare_file(src, filename).await?, then options.get_map() handed to
\* build_form_data
prepare_file(c) ==
    /\ call[c].pc = "prepare_file"
    /\ \/ call' = [call EXCEPT ![c] = [@ EXCEPT !.pc = "timestamp",
                                                !.options_map = call[c].options,
                                                !.supplied = call[c].options]]
       \/ call' = [call EXCEPT ![c] = ReturnErr(@, "part", "invalid mime type")]
    /\ UNCHANGED <<cloudinary, clock, sig, parse, dec>>

\* rename_image(public_id, new_public_id): the options map it builds
rename_image(c, public_id, new_public_id) ==
    /\ call[c].pc = "idle"
    /\ LET m == BTreeMapInsert(BTreeMapInsert(BTreeMapNew, k_from_public_id, public_id),
                               k_to_public_id, new_public_id)
       IN  call' = [call EXCEPT ![c] = [@ EXCEPT !.pc = "timestamp", !.op = "rename",
                                                 !.options_map = m, !.supplied = m]]
    /\ UNCHANGED <<cloudinary, clock, sig, parse, dec>>

\* delete_image(public_id): the options map it builds
delete_image(c, public_id) ==
    /\ call[c].pc = "idle"
    /\ LET m == BTreeMapInsert(BTreeMapNew, k_public_id, public_id)
       IN  call' = [call EXCEPT ![c] = [@ EXCEPT !.pc = "timestamp", !.op = "destroy",
                                                 !.options_map = m, !.supplied = m]]
    /\ UNCHANGED <<cloudinary, clock, sig, parse, dec>>

(* build_form_data, statement by statement *)

\* let timestamp = Utc::now().timestamp_millis().to_string();
build_form_data_timestamp(c) ==
    /\ call[c].pc = "timestamp"
    /\ call' = [call EXCEPT ![c] = [@ EXCEPT !.pc = "scaffold",
                                            !.timestamp = ToString(clock),
                                            !.clock_reads = @ + 1]]
    /\ UNCHANGED <<cloudinary, clock, sig, parse, dec>>

\* A faulty scaffold that also adds a signature field, still empty.
ScaffoldFields_WithSignature(api_key, timestamp) ==
    << TextField(UPLOAD_OPTION_API_KEY, I64ToString(api_key)),
       TextField(UPLOAD_OPTION_TIMESTAMP, timestamp),
       TextField(UPLOAD_OPTION_SIGNATURE, <<>>) >>

\* Form::new().text(api_key, ..).text(timestamp, ..)
ScaffoldFields(api_key, timestamp) ==
    << TextField(UPLOAD_OPTION_API_KEY, I64ToString(api_key)),
       TextField(UPLOAD_OPTION_TIMESTAMP, timestamp) >>

build_form_data_scaffold(c) ==
    /\ call[c].pc = "scaffold"
    /\ call' = [call EXCEPT ![c] = [@ EXCEPT !.pc = "resource_type",
                    !.form = ScaffoldFields(cloudinary.api_key, call[c].timestamp)]]
    /\ UNCHANGED <<cloudinary, clock, sig, parse, dec>>

\* if let Some(resource_type) = options_map.remove(resource_type) { form.text(..) }
build_form_data_resource_type(c) ==
    /\ call[c].pc = "resource_type"
    /\ LET removed == BTreeMapRemoved(call[c].options_map, UPLOAD_OPTION_RESOURCE_TYPE)
       IN  call' = [call EXCEPT ![c] = [@ EXCEPT
                !.pc = "signature",
                !.options_map = BTreeMapRemove(@, UPLOAD_OPTION_RESOURCE_TYPE),
                !.form = IF removed[1] = "Some"
                         THEN Append(@, TextField(UPLOAD_OPTION_RESOURCE_TYPE, removed[2]))
                         ELSE @]]
    /\ UNCHANGED <<cloudinary, clock, sig, parse, dec>>

\* A faulty argument: the clock read again for the signature.
SignatureTimestamp_Reread(c) == ToString(clock)

\* A faulty argument: one timestamp shared by all calls.
SignatureTimestamp_Shared(c) == call[CHOOSE d \in DOMAIN call : TRUE].timestamp

\* The timestamp handed to build_signature: the local read at the start.
SignatureTimestamp(c) == call[c].timestamp

\* let signature = self.build_signature(options_map, timestamp);
build_form_data_signature(c) ==
    /\ call[c].pc = "signature"
    /\ call' = [call EXCEPT ![c] = [@ EXCEPT
            !.pc = "add_signature",
            !.hashed = SignatureInput(call[c].options_map, SignatureTimestamp(c),
                                      cloudinary.api_secret),
            !.signature = build_signature(call[c].options_map, SignatureTimestamp(c),
                                          cloudinary.api_secret)]]
    /\ UNCHANGED <<cloudinary, clock, sig, parse, dec>>

\* form = form.text(signature, signature);
build_form_data_add_signature(c) ==
    /\ call[c].pc = "add_signature"
    /\ call' = [call EXCEPT ![c] = [@ EXCEPT
            !.pc = "add_fields",
            !.form = Append(@, TextField(UPLOAD_OPTION_SIGNATURE, call[c].signature))]]
    /\ UNCHANGED <<cloudinary, clock, sig, parse, dec>>

\* for (k, v) in options_map.iter() { form = form.text(k.clone(), v.clone()); }
OptionFields(m) == [i \in 1..Len(m) |-> TextField(m[i][1], m[i][2])]

\* the loop, the return of the form and, in upload_image, .part("file", file)
build_form_data_add_fields(c) ==
    /\ call[c].pc = "add_fields"
    /\ call' = [call EXCEPT ![c] = [@ EXCEPT
            !.pc = "send",
            !.form = @ \o OptionFields(call[c].options_map)
                       \o (IF call[c].op = "upload"
                           THEN <<FilePart(s_file, call[c].file)>> ELSE <<>>)]]
    /\ UNCHANGED <<cloudinary, clock, sig, parse, dec>>

\* Client::new().post(format!("{}/{}/image/<op>", ..)).multipart(form).send().await
Request(cloud_name, op, form) == [cloud_name |-> cloud_name, op |-> op, form |-> form]

send(c) ==
    /\ call[c].pc = "send"
    /\ LET sending == [call[c] EXCEPT
                          !.sent = Append(@, Request(cloudinary.cloud_name, call[c].op,
                                                     call[c].form))]
       IN  \/ call' = [call EXCEPT ![c] = [sending EXCEPT !.pc = "text"]]
           \/ call' = [call EXCEPT ![c] = ReturnErr(sending, "send", "error sending request")]
    /\ UNCHANGED <<cloudinary, clock, sig, parse, dec>>

\* response.text().await
text(c, t) ==
    /\ call[c].pc = "text"
    /\ \/ call' = [call EXCEPT ![c] = [@ EXCEPT !.pc = "decode", !.text = t]]
       \/ call' = [call EXCEPT ![c] = ReturnErr(@, "text", "error decoding response body")]
    /\ UNCHANGED <<cloudinary, clock, sig, parse, dec>>

\* The result type of each operation.
ResultEnum(op) ==
    CASE op = "upload" -> CloudinaryUploadResult
      [] op = "rename" -> CloudinaryRenameResult
      [] op = "destroy" -> CloudinaryDeleteResult

\* serde_json::from_str(&text).map_err(|err| CloudinaryError(err.to_string()))
decode(c) ==
    /\ call[c].pc = "decode"
    /\ LET r == from_str_json(ResultEnum(call[c].op), call[c].text.json)
       IN  call' = [call EXCEPT ![c] = [@ EXCEPT
               !.pc = "done", !.decodes = @ + 1, !.result = r,
               !.failed = IF r.tag = "Err" THEN "decode" ELSE @]]
    /\ UNCHANGED <<cloudinary, clock, sig, parse, dec>>

\* Time passes.
MaxTicks == 2
ClockStart == 9

Tick(ticks) ==
    /\ clock < ClockStart + ticks
    /\ clock' = clock + 1
    /\ UNCHANGED <<cloudinary, call, sig, parse, dec>>

---------------------------------------------------------------------------
(* One call, with every kind of input *)

MaxOptions == 2

s_bad_request == "{\"error\":{\"message\":\"bad request\"}}"

\* UploadOptions::get_map: any map of option names to values.
UploadOptionKeys ==
    {k_folder, k_public_id, UPLOAD_OPTION_RESOURCE_TYPE, UPLOAD_OPTION_SIGNATURE,
     UPLOAD_OPTION_API_KEY, UPLOAD_OPTION_TIMESTAMP}
UploadOptionValues == {s_x, s_image}

RECURSIVE MapsOver(_, _)
MapsOver(keys, n) ==
    IF n = 0 \/ keys = {} THEN {BTreeMapNew}
    ELSE LET k == CHOOSE k \in keys : TRUE
             rest == MapsOver(keys \ {k}, n)
             fewer == MapsOver(keys \ {k}, n - 1)
         IN  rest \cup {BTreeMapInsert(m, k, v) : m \in fewer, v \in UploadOptionValues}

get_map == MapsOver(UploadOptionKeys, MaxOptions)

PublicIds == {s_x, s_y}

Texts ==
    { [raw |-> "not json", json |-> JInvalid],
      [raw |-> "{}", json |-> JObj(<<>>)],
      [raw |-> s_bad_request, json |-> ObjectOf(Error)],
      [raw |-> "{\"result\":\"x\"}", json |-> ObjectOf(DeleteResponse)],
      [raw |-> "{\"asset_id\":\"x\", ... ,\"folder\":\"x\"}", json |-> ObjectOf(RenameResponse)],
      [raw |-> "{\"asset_id\":\"x\", ... ,\"api_key\":\"x\"}", json |-> ObjectOf(UploadResponse)] }

InitCalls(n) ==
    /\ cloudinary = Client
    /\ clock = ClockStart
    /\ call = [c \in 1..n |-> IdleCall]
    /\ sig = SigIdle
    /\ parse = ParseIdle
    /\ dec = DecIdle

Init == InitCalls(1)

Next ==
    \/ \E c \in DOMAIN call, options \in get_map : upload_image(c, options, s_x)
    \/ \E c \in DOMAIN call, a, b \in PublicIds : rename_image(c, a, b)
    \/ \E c \in DOMAIN call, a \in PublicIds : delete_image(c, a)
    \/ \E c \in DOMAIN call : prepare_file(c)
    \/ \E c \in DOMAIN call : build_form_data_timestamp(c)
    \/ \E c \in DOMAIN call : build_form_data_scaffold(c)
    \/ \E c \in DOMAIN call : build_form_data_resource_type(c)
    \/ \E c \in DOMAIN call : build_form_data_signature(c)
    \/ \E c \in DOMAIN call : build_form_data_add_signature(c)
    \/ \E c \in DOMAIN call : build_form_data_add_fields(c)
    \/ \E c \in DOMAIN call : send(c)
    \/ \E c \in DOMAIN call, t \in Texts : text(c, t)
    \/ \E c \in DOMAIN call : decode(c)
    \/ Tick(MaxTicks)

Spec == Init /\ [][Next]_vars

---------------------------------------------------------------------------
(* Concurrent calls on one client, each up to the return of its send: what
   follows in a call reads only its own response. *)

NumCalls == 2
ConcTicks == 1

ConcOptions ==
    { BTreeMapInsert(BTreeMapInsert(BTreeMapNew, UPLOAD_OPTION_RESOURCE_TYPE, s_image),
                     k_folder, s_y) }

InitConc == InitCalls(NumCalls)

NextConc ==
    \/ \E c \in DOMAIN call, options \in ConcOptions : upload_image(c, options, s_x)
    \/ \E c \in DOMAIN call : rename_image(c, s_x, s_y)
    \/ \E c \in DOMAIN call : delete_image(c, s_y)
    \/ \E c \in DOMAIN call : prepare_file(c)
    \/ \E c \in DOMAIN call : build_form_data_timestamp(c)
    \/ \E c \in DOMAIN call : build_form_data_scaffold(c)
    \/ \E c \in DOMAIN call : build_form_data_resource_type(c)
    \/ \E c \in DOMAIN call : build_form_data_signature(c)
    \/ \E c \in DOMAIN call : build_form_data_add_signature(c)
    \/ \E c \in DOMAIN call : build_form_data_add_fields(c)
    \/ \E c \in DOMAIN call : send(c)
    \/ Tick(ConcTicks)

SpecConc == InitConc /\ [][NextConc]_vars

---------------------------------------------------------------------------
(* What the claims speak of *)

TextFieldsNamed(form, name) ==
    {i \in 1..Len(form) : form[i].kind = "text" /\ form[i].name = name}

\* build_form_data has returned the form.
FormComplete(r) == r.pc = "send" \/ r.sent # <<>>

\* build_signature has run.
SignatureComputed(r) == r.signature # <<>>

EndsWith(str, suffix) ==
    /\ Len(suffix) <= Len(str)
    /\ SubSeq(str, Len(str) - Len(suffix) + 1, Len(str)) = suffix

StartsWith(str, prefix) ==
    /\ Len(prefix) <= Len(str)
    /\ SubSeq(str, 1, Len(prefix)) = prefix

\* The pieces of a byte string between the occurrences of a byte.
RECURSIVE Split(_, _)
Split(str, byte) ==
    IF \A i \in 1..Len(str) : str[i] # byte THEN {str}
    ELSE LET i == CHOOSE i \in 1..Len(str) :
                      str[i] = byte /\ \A j \in 1..(i - 1) : str[j] # byte
         IN  {SubSeq(str, 1, i - 1)} \cup Split(SubSeq(str, i + 1, Len(str)), byte)

\* The hashed string holds a key=value pair of this key.
SignsKey(hashed, key) ==
    \E seg \in Split(hashed, QUERY_PARAM_SEPARATOR[1]) : StartsWith(seg, key \o EQ)

---------------------------------------------------------------------------
(* C2 *)

\* C2: for every parameter map handed to build_form_data, the string fed
\* to the hash holds no key=value pair whose key is resource_type, signature
\* or api_key.
C2_ReservedKeysNotSigned ==
    \A c \in DOMAIN call :
        SignatureComputed(call[c]) =>
            /\ ~SignsKey(call[c].hashed, UPLOAD_OPTION_RESOURCE_TYPE)
            /\ ~SignsKey(call[c].hashed, UPLOAD_OPTION_SIGNATURE)
            /\ ~SignsKey(call[c].hashed, UPLOAD_OPTION_API_KEY)

\* What the code does ensure: resource_type is never signed.
C2_ResourceTypeNotSigned ==
    \A c \in DOMAIN call :
        SignatureComputed(call[c]) =>
            ~SignsKey(call[c].hashed, UPLOAD_OPTION_RESOURCE_TYPE)

---------------------------------------------------------------------------
(* C3 *)

\* C3: build_form_data reads the clock once, and the value of the timestamp
\* field it puts in the form (the second field) is the one in the
\* timestamp=<T> segment that ends the signature input before the secret,
\* also when the clock advances during the assembly.
C3_OneTimestamp ==
    \A c \in DOMAIN call :
        /\ call[c].clock_reads <= 1
        /\ SignatureComputed(call[c]) =>
              /\ call[c].clock_reads = 1
              /\ call[c].form[2].name = UPLOAD_OPTION_TIMESTAMP
              /\ EndsWith(call[c].hashed,
                          UPLOAD_OPTION_TIMESTAMP \o EQ \o call[c].form[2].value
                              \o cloudinary.api_secret)

\* The form is still being assembled, the signature is computed, and the
\* clock has moved on from the value read for the form.
C3_Witness ==
    \E c \in DOMAIN call :
        /\ call[c].pc = "add_signature"
        /\ SignatureComputed(call[c])
        /\ ToString(clock) # call[c].timestamp
        /\ call[c].form[2].value = call[c].timestamp

---------------------------------------------------------------------------
(* C4 *)

\* C4 as claimed: the api_key field and the signature field are in the form
\* only once the signature has been computed.
C4_ApiKeyAndSignatureAfterSignature ==
    \A c \in DOMAIN call :
        (\/ TextFieldsNamed(call[c].form, UPLOAD_OPTION_API_KEY) # {}
         \/ TextFieldsNamed(call[c].form, UPLOAD_OPTION_SIGNATURE) # {})
            => SignatureComputed(call[c])

\* C4, amended: the signature field is in the form only once the signature
\* has been computed; the api_key field is the first field of the form, there
\* with the timestamp before the signature is computed.
C4_SignatureAfterSignature ==
    \A c \in DOMAIN call :
        /\ TextFieldsNamed(call[c].form, UPLOAD_OPTION_SIGNATURE) # {}
              => SignatureComputed(call[c])
        /\ call[c].pc \in {"resource_type", "signature"} =>
              /\ ~SignatureComputed(call[c])
              /\ call[c].form[1].name = UPLOAD_OPTION_API_KEY
              /\ call[c].form[2].name = UPLOAD_OPTION_TIMESTAMP

C4_Witness ==
    \E c \in DOMAIN call :
        /\ call[c].pc = "add_fields"
        /\ call[c].form[Len(call[c].form)] =
              TextField(UPLOAD_OPTION_SIGNATURE, call[c].signature)

---------------------------------------------------------------------------
(* C5 *)

\* The caller's value of a key.
Supplied(r, k) == r.supplied[BTreeMapGet(r.supplied, k)][2]

\* C5: the form holds api_key, timestamp and signature once each,
\* resource_type exactly when the caller gave it and with the caller's value,
\* and every other caller field once, verbatim; the signed caller fields are
\* the caller fields of the form without resource_type.
C5_FormContents ==
    \A c \in DOMAIN call :
        FormComplete(call[c]) =>
            LET r == call[c]
                callerKeys == BTreeMapKeys(r.supplied)
            IN  /\ \A k \in {UPLOAD_OPTION_API_KEY, UPLOAD_OPTION_TIMESTAMP,
                             UPLOAD_OPTION_SIGNATURE} :
                       Cardinality(TextFieldsNamed(r.form, k)) = 1
                /\ \A k \in callerKeys :
                       /\ Cardinality(TextFieldsNamed(r.form, k)) = 1
                       /\ \A i \in TextFieldsNamed(r.form, k) : r.form[i].value = Supplied(r, k)
                /\ UPLOAD_OPTION_RESOURCE_TYPE \notin callerKeys =>
                       TextFieldsNamed(r.form, UPLOAD_OPTION_RESOURCE_TYPE) = {}
                /\ \A k \in callerKeys :
                       SignsKey(r.hashed, k) <=> k # UPLOAD_OPTION_RESOURCE_TYPE

\* The same for the maps that hold none of api_key, timestamp, signature.
C5_FormContentsOfOrdinaryMaps ==
    \A c \in DOMAIN call :
        (/\ FormComplete(call[c])
         /\ BTreeMapKeys(call[c].supplied)
                \cap {UPLOAD_OPTION_API_KEY, UPLOAD_OPTION_TIMESTAMP,
                      UPLOAD_OPTION_SIGNATURE} = {}) =>
            LET r == call[c]
                callerKeys == BTreeMapKeys(r.supplied)
            IN  /\ \A k \in {UPLOAD_OPTION_API_KEY, UPLOAD_OPTION_TIMESTAMP,
                             UPLOAD_OPTION_SIGNATURE} :
                       Cardinality(TextFieldsNamed(r.form, k)) = 1
                /\ \A k \in callerKeys :
                       /\ Cardinality(TextFieldsNamed(r.form, k)) = 1
                       /\ \A i \in TextFieldsNamed(r.form, k) : r.form[i].value = Supplied(r, k)
                /\ UPLOAD_OPTION_RESOURCE_TYPE \notin callerKeys =>
                       TextFieldsNamed(r.form, UPLOAD_OPTION_RESOURCE_TYPE) = {}
                /\ \A k \in callerKeys :
                       SignsKey(r.hashed, k) <=> k # UPLOAD_OPTION_RESOURCE_TYPE

---------------------------------------------------------------------------
(* C7 *)

\* What a transport failure returns to the caller.
TransportErrors == {Err("error sending request"), Err("error decoding response body")}

\* C7: a text that matches neither shape ends the call with an error that
\* carries the raw text and is neither a transport error nor a
\* service-reported error.
C7_MalformedCarriesText ==
    \A c \in DOMAIN call :
        (call[c].pc = "done" /\ call[c].failed = "decode") =>
            /\ call[c].result.tag = "Err"
            /\ call[c].result.msg = call[c].text.raw
            /\ call[c].result \notin TransportErrors

---------------------------------------------------------------------------
(* C9 *)

\* C9: a call sends at most once and decodes at most once; a failure to
\* build the file part ends it before any send, a transport failure on
\* send or on reading the body ends it with no further send and no decode,
\* and a call that has ended has exactly one of a decoded outcome or an
\* error, every failure being an error.
C9_AtMostOnce ==
    \A c \in DOMAIN call :
        LET r == call[c]
        IN  /\ Len(r.sent) <= 1
            /\ r.decodes <= 1
            /\ r.failed # "" => r.pc = "done" /\ r.result.tag = "Err"
            /\ r.failed = "part" => r.sent = <<>> /\ r.decodes = 0
            /\ r.failed \in {"send", "text"} => Len(r.sent) = 1 /\ r.decodes = 0
            /\ r.pc = "done" <=> r.result.tag \in {"Ok", "Err"}
            /\ (r.pc = "done" /\ r.failed = "") =>
                  r.result.tag = "Ok" /\ Len(r.sent) = 1 /\ r.decodes = 1

C9_Witness ==
    \E c \in DOMAIN call :
        /\ call[c].pc = "done"
        /\ call[c].failed = "send"
        /\ Len(call[c].sent) = 1

---------------------------------------------------------------------------
(* C10 *)

\* The form build_form_data makes of a map, a timestamp and the credentials.
FormOf(r, client) ==
    LET signed == BTreeMapRemove(r.supplied, UPLOAD_OPTION_RESOURCE_TYPE)
    IN  ScaffoldFields(client.api_key, r.timestamp)
        \o (IF UPLOAD_OPTION_RESOURCE_TYPE \in BTreeMapKeys(r.supplied)
            THEN <<TextField(UPLOAD_OPTION_RESOURCE_TYPE,
                             Supplied(r, UPLOAD_OPTION_RESOURCE_TYPE))>>
            ELSE <<>>)
        \o <<TextField(UPLOAD_OPTION_SIGNATURE,
                       build_signature(signed, r.timestamp, client.api_secret))>>
        \o OptionFields(signed)
        \o (IF r.op = "upload" THEN <<FilePart(s_file, r.file)>> ELSE <<>>)

\* C10: under any interleaving of calls the credentials stay as constructed,
\* and each call's signature input and form are those of its own parameters,
\* its own timestamp and the credentials.
C10_CallsIndependent ==
    /\ cloudinary = Client
    /\ \A c \in DOMAIN call :
          /\ SignatureComputed(call[c]) =>
                call[c].hashed =
                    SignatureInput(BTreeMapRemove(call[c].supplied, UPLOAD_OPTION_RESOURCE_TYPE),
                                   call[c].timestamp, Client.api_secret)
          /\ FormComplete(call[c]) =>
                /\ call[c].form = FormOf(call[c], Client)
                /\ \A i \in 1..Len(call[c].sent) :
                      call[c].sent[i] = Request(Client.cloud_name, call[c].op, call[c].form)

\* Two calls of different operations, their forms complete, with different
\* timestamps.
C10_Witness ==
    \E c, d \in DOMAIN call :
        /\ FormComplete(call[c]) /\ FormComplete(call[d])
        /\ call[c].op = "upload" /\ call[d].op = "rename"
        /\ call[c].timestamp # call[d].timestamp
        /\ call[c].pc = "text" /\ call[d].pc = "send"

=============================================================================
